---------------------------- MODULE Spec2Model ----------------------------
(***************************************************************************)
(* Model of image-to-xterm256 (src/main.py): the palette quantizer         *)
(* (round_tint, get_xterm_color), the glyph mapper (get_char_from_light),  *)
(* the tile reducer (print_tile) and the grid planning and render loop of  *)
(* main().                                                                 *)
(*                                                                         *)
(* Python floats are modelled by exact rational arithmetic on integers:    *)
(* FONT_RATIO = 0.4 is 2/5, image_ratio is image_width/image_height, and   *)
(* math.floor / int of a quotient is \div.  On the ranges explored here    *)
(* (image sides up to MaxImage + 1, the colours of Palette, light 0..255)  *)
(* the IEEE-754 double results of main.py coincide with the exact ones.    *)
(***************************************************************************)
EXTENDS Integers, Sequences, FiniteSets, TLC

VARIABLES
    pc,                 \* position of main() / of the function call
    image_width, image_height, image,      \* the decoded image (line 124-126)
    terminal_height, terminal_width,       \* get_terminal_sizes() (line 130)
    grid_height, grid_width,
    tile_width, tile_height,
    image_row_count, image_col_count,
    vertical_margin, horizontal_margin,
    row, col,                              \* the render loop's indices
    tiles,              \* the boxes handed to image.crop, in order
    out,                \* what was printed so far, a sequence of tokens
    fn, args, ret       \* a single call of one of the pure functions

vars == << pc, image_width, image_height, image, terminal_height,
           terminal_width, grid_height, grid_width, tile_width, tile_height,
           image_row_count, image_col_count, vertical_margin,
           horizontal_margin, row, col, tiles, out, fn, args, ret >>

planVars == << grid_height, grid_width, tile_width, tile_height,
               image_row_count, image_col_count, vertical_margin,
               horizontal_margin >>
inputVars == << image_width, image_height, image, terminal_height,
                terminal_width >>
callVars == << fn, args, ret >>

---------------------------------------------------------------------------
(* Bounds of the exploration *)

MaxImage == 5
MaxTerminal == 7
MaxTile == 3
MaxCount == 3
Near == 1

---------------------------------------------------------------------------
(* Module constants of main.py *)

FONT_RATIO_NUM == 2
FONT_RATIO_DEN == 5

\* Each element is one character of the ramp; "BACKQUOTE" stands for the
\* grave accent (U+0060), which a TLA+ string cannot hold.
ASCII_SCALE ==
    << "$", "@", "B", "%", "8", "&", "W", "M", "#", "*",
       "o", "a", "h", "k", "b", "d", "p", "q", "w", "m",
       "Z", "O", "0", "Q", "L", "C", "J", "U", "Y", "X",
       "z", "c", "v", "u", "n", "x", "r", "j", "f", "t",
       "/", "\\", "|", "(", ")", "1", "{", "}", "[", "]",
       "?", "-", "_", "+", "~", "<", ">", "i", "!", "l",
       "I", ";", ":", ",", "\"", "^", "BACKQUOTE", "'", ".", " " >>

ASCII_SCALE_SIZE == Len(ASCII_SCALE)

COLORS_STEPS ==
    << <<0, 95>>, <<95, 135>>, <<135, 175>>, <<175, 215>>, <<215, 255>> >>

Abs(x) == IF x < 0 THEN -x ELSE x

---------------------------------------------------------------------------
(* round_tint: the first step (step_low, step_max) containing tint decides *)

TintChoiceLowOnTie(tint, step_low, step_max, m) ==
    IF Abs(tint - step_low) <= Abs(tint - step_max) THEN m ELSE m + 1

TintChoice(tint, step_low, step_max, m) ==
    IF Abs(tint - step_low) < Abs(tint - step_max) THEN m ELSE m + 1

RECURSIVE RoundTintFrom(_, _)
RoundTintFrom(tint, m) ==
    IF m >= Len(COLORS_STEPS) THEN 0
    ELSE LET step_low == COLORS_STEPS[m + 1][1]
             step_max == COLORS_STEPS[m + 1][2]
         IN  IF step_low <= tint /\ tint <= step_max
             THEN TintChoice(tint, step_low, step_max, m)
             ELSE RoundTintFrom(tint, m + 1)

round_tint(tint) == RoundTintFrom(tint, 0)

(* get_xterm_color *)

XtermNoOffset(r, g, b) ==
    round_tint(r) * 36 + round_tint(g) * 6 + round_tint(b)

get_xterm_color(r, g, b) ==
    LET rr == round_tint(r)
        rg == round_tint(g)
        rb == round_tint(b)
    IN  16 + rr * 36 + rg * 6 + rb

(* get_char_from_light: light is the rational light[1] / light[2];        *)
(* int() truncates, which is \div for the non-negative values met here    *)

CharIndexFullSize(light) ==
    (light[1] * ASCII_SCALE_SIZE) \div (light[2] * 255)

CharIndex(light) ==
    (light[1] * (ASCII_SCALE_SIZE - 1)) \div (light[2] * 255)

get_char_from_light(light) ==
    LET index == CharIndex(light)
    IN  IF index < ASCII_SCALE_SIZE THEN ASCII_SCALE[index + 1]
        ELSE "IndexError"

(* print_tile: pixels is the list tile.getcolors() returned, a sequence   *)
(* of <<count, color>> pairs                                              *)

RECURSIVE ScanLastWins(_, _, _)
ScanLastWins(pixels, i, best) ==
    IF i > Len(pixels) THEN best
    ELSE ScanLastWins(pixels, i + 1,
                      IF pixels[i][1] >= best[1] THEN pixels[i] ELSE best)

RECURSIVE ScanPixels(_, _, _)
ScanPixels(pixels, i, best) ==
    IF i > Len(pixels) THEN best
    ELSE ScanPixels(pixels, i + 1,
                    IF pixels[i][1] > best[1] THEN pixels[i] ELSE best)

MostFrequentLastWins(pixels) == ScanLastWins(pixels, 1, pixels[1])

most_frequent_pixel(pixels) == ScanPixels(pixels, 1, pixels[1])

Light(r, g, b) == << r * 299 + g * 587 + b * 114, 1000 >>

ColorEscape == "ESC[38;5;"
ColorReset == "ESC[0m"

TileText(color) ==
    LET r == color[1]
        g == color[2]
        b == color[3]
        char == get_char_from_light(Light(r, g, b))
        code == get_xterm_color(r, g, b)
    IN  << ColorEscape, code, "m", char, ColorReset >>

print_tile(pixels) == TileText(most_frequent_pixel(pixels)[2])

---------------------------------------------------------------------------
(* The decoded image and PIL's crop / getcolors                            *)

PaletteColors == << <<255, 0, 0>>, <<0, 0, 255>>, <<0, 255, 0>> >>

Palette == { PaletteColors[i] : i \in 1..Len(PaletteColors) }

\* The images explored: pixel (x, y) of image <<a, b>> has the color number
\* (a*x + b*y) mod 3: one color, stripes either way, diagonals.
Images == (0..1) \X (0..1)

PixelAt(img, x, y) ==
    PaletteColors[((img[1] * x + img[2] * y) % Len(PaletteColors)) + 1]

\* A box is <<x1, y1, x2, y2>>, left and upper bounds included
BoxPixels(box) ==
    { <<x, y>> : x \in box[1]..(box[3] - 1), y \in box[2]..(box[4] - 1) }

ColorsIn(img, box) == { PixelAt(img, p[1], p[2]) : p \in BoxPixels(box) }

CountOf(img, box, color) ==
    Cardinality({ p \in BoxPixels(box) : PixelAt(img, p[1], p[2]) = color })

\* tile.getcolors(width * height): one <<count, color>> per color of the
\* tile, in an order the library chooses
GetColors(img, box) ==
    LET cs == ColorsIn(img, box)
        n == Cardinality(cs)
    IN  { [i \in 1..n |-> << CountOf(img, box, o[i]), o[i] >>] :
            o \in { f \in [1..n -> cs] :
                      \A i, j \in 1..n : i # j => f[i] # f[j] } }

---------------------------------------------------------------------------
(* The print helpers: what each call appends to the output                 *)

Repeat(token, n) == [i \in 1..n |-> token]

NewLine == << "\n" >>

VerticalMarginOneMore(size) == Repeat(NewLine, size + 1)

print_vertical_margin(size) == Repeat(NewLine, size)

\* print("", end="") writes no character
print_horizontal_margin(size) == << >>

TopBorderOpen(content_width) ==
    << <<"+">> >> \o Repeat(<<"-">>, content_width) \o << NewLine >>

print_top_border(content_width) ==
    << <<"+">> >> \o Repeat(<<"-">>, content_width) \o << <<"+">>, NewLine >>

---------------------------------------------------------------------------
(* main(): grid planning                                                   *)

FloorDiv(a, b) == a \div b

\* grid_width * FONT_RATIO / image_ratio < grid_height
WidthBound(iw, ih, gw, gh) ==
    gw * FONT_RATIO_NUM * ih < gh * FONT_RATIO_DEN * iw

NextTileSizeStuck(size) == size

NextTileSize(size) == size + 1

Init ==
    /\ pc = "start"
    /\ image_width \in 1..MaxImage
    /\ image_height \in 1..MaxImage
    /\ image \in Images
    /\ terminal_height \in 3..MaxTerminal
    /\ terminal_width \in 3..MaxTerminal
    /\ grid_height = 0 /\ grid_width = 0
    /\ tile_width = 0 /\ tile_height = 0
    /\ image_row_count = 0 /\ image_col_count = 0
    /\ vertical_margin = 0 /\ horizontal_margin = 0
    /\ row = 0 /\ col = 0
    /\ tiles = << >> /\ out = << >>
    /\ fn = "main" /\ args = << >> /\ ret = << >>

ComputeGrid ==
    /\ pc = "start"
    /\ grid_height' = terminal_height - 2
    /\ grid_width' = terminal_width - 2
    /\ pc' = "scale"
    /\ UNCHANGED << inputVars, tile_width, tile_height, image_row_count,
                    image_col_count, vertical_margin, horizontal_margin,
                    row, col, tiles, out, callVars >>

ScaleTiles ==
    /\ pc = "scale"
    /\ IF WidthBound(image_width, image_height, grid_width, grid_height)
       THEN LET tw == FloorDiv(image_width, grid_width)
            IN  /\ tile_width' = tw
                /\ tile_height' =
                      FloorDiv(tw * FONT_RATIO_DEN * image_height,
                               FONT_RATIO_NUM * image_width)
       ELSE LET th == FloorDiv(image_height, grid_height)
            IN  /\ tile_height' = th
                /\ tile_width' = FloorDiv(th * image_width, image_height)
    /\ pc' = "count"
    /\ UNCHANGED << inputVars, grid_height, grid_width, image_row_count,
                    image_col_count, vertical_margin, horizontal_margin,
                    row, col, tiles, out, callVars >>

CountTiles ==
    /\ pc = "count"
    /\ IF tile_height = 0
       THEN /\ pc' = "ZeroDivisionError"
            /\ UNCHANGED << image_row_count, image_col_count >>
       ELSE /\ image_row_count' = FloorDiv(image_height, tile_height)
            /\ IF tile_width = 0
               THEN /\ pc' = "ZeroDivisionError"
                    /\ UNCHANGED image_col_count
               ELSE /\ image_col_count' = FloorDiv(image_width, tile_width)
                    /\ pc' = "row_loop"
    /\ UNCHANGED << inputVars, grid_height, grid_width, tile_width,
                    tile_height, vertical_margin, horizontal_margin,
                    row, col, tiles, out, callVars >>

RowLoopStep ==
    /\ pc = "row_loop"
    /\ image_row_count >= grid_height
    /\ tile_height' = NextTileSize(tile_height)
    /\ image_row_count' = FloorDiv(image_height, tile_height')
    /\ UNCHANGED << pc, inputVars, grid_height, grid_width, tile_width,
                    image_col_count, vertical_margin, horizontal_margin,
                    row, col, tiles, out, callVars >>

RowLoopExit ==
    /\ pc = "row_loop"
    /\ ~(image_row_count >= grid_height)
    /\ pc' = "col_loop"
    /\ UNCHANGED << inputVars, planVars, row, col, tiles, out, callVars >>

ColLoopStep ==
    /\ pc = "col_loop"
    /\ image_col_count >= grid_width
    /\ tile_width' = NextTileSize(tile_width)
    /\ image_col_count' = FloorDiv(image_width, tile_width')
    /\ UNCHANGED << pc, inputVars, grid_height, grid_width, tile_height,
                    image_row_count, vertical_margin, horizontal_margin,
                    row, col, tiles, out, callVars >>

ColLoopExit ==
    /\ pc = "col_loop"
    /\ ~(image_col_count >= grid_width)
    /\ pc' = "margins"
    /\ UNCHANGED << inputVars, planVars, row, col, tiles, out, callVars >>

ComputeMargins ==
    /\ pc = "margins"
    /\ vertical_margin' = grid_height - image_row_count
    /\ horizontal_margin' = grid_width - image_col_count
    /\ pc' = "lead"
    /\ UNCHANGED << inputVars, grid_height, grid_width, tile_width,
                    tile_height, image_row_count, image_col_count,
                    row, col, tiles, out, callVars >>

---------------------------------------------------------------------------
(* main(): rendering                                                       *)

CropBoxNoClamp(r, c) ==
    << c * tile_width, r * tile_height,
       (c + 1) * tile_width, (r + 1) * tile_height >>

CropBox(r, c) ==
    LET y1 == r * tile_height
        y2 == IF r = image_row_count - 1 THEN image_height
              ELSE (r + 1) * tile_height
        x1 == c * tile_width
        x2 == IF c = image_col_count - 1 THEN image_width
              ELSE (c + 1) * tile_width
    IN  << x1, y1, x2, y2 >>

PrintLeadingMargin ==
    /\ pc = "lead"
    /\ out' = out \o print_vertical_margin(vertical_margin \div 2)
    /\ pc' = "top"
    /\ UNCHANGED << inputVars, planVars, row, col, tiles, callVars >>

PrintTopBorder ==
    /\ pc = "top"
    /\ out' = out \o print_horizontal_margin(horizontal_margin \div 2)
                  \o print_top_border(image_col_count)
    /\ row' = 0
    /\ pc' = "row"
    /\ UNCHANGED << inputVars, planVars, col, tiles, callVars >>

RowStart ==
    /\ pc = "row"
    /\ row < image_row_count
    /\ out' = out \o print_horizontal_margin(horizontal_margin \div 2)
                  \o << <<"|">> >>
    /\ col' = 0
    /\ pc' = "tile"
    /\ UNCHANGED << inputVars, planVars, row, tiles, callVars >>

PrintTile ==
    /\ pc = "tile"
    /\ col < image_col_count
    /\ LET box == CropBox(row, col)
       IN  /\ tiles' = Append(tiles, box)
           /\ \E pixels \in GetColors(image, box) :
                  out' = Append(out, print_tile(pixels))
    /\ col' = col + 1
    /\ UNCHANGED << pc, inputVars, planVars, row, callVars >>

RowEnd ==
    /\ pc = "tile"
    /\ col = image_col_count
    /\ out' = out \o << <<"|">>, NewLine >>
    /\ row' = row + 1
    /\ pc' = "row"
    /\ UNCHANGED << inputVars, planVars, col, tiles, callVars >>

PrintBottomBorder ==
    /\ pc = "row"
    /\ row = image_row_count
    /\ out' = out \o print_horizontal_margin(horizontal_margin \div 2)
                  \o print_top_border(image_col_count)
    /\ pc' = "trail"
    /\ UNCHANGED << inputVars, planVars, row, col, tiles, callVars >>

PrintTrailingMargin ==
    /\ pc = "trail"
    /\ out' = out \o print_vertical_margin(vertical_margin \div 2)
    /\ pc' = "done"
    /\ UNCHANGED << inputVars, planVars, row, col, tiles, callVars >>

Next ==
    \/ ComputeGrid
    \/ ScaleTiles
    \/ CountTiles
    \/ RowLoopStep
    \/ RowLoopExit
    \/ ColLoopStep
    \/ ColLoopExit
    \/ ComputeMargins
    \/ PrintLeadingMargin
    \/ PrintTopBorder
    \/ RowStart
    \/ PrintTile
    \/ RowEnd
    \/ PrintBottomBorder
    \/ PrintTrailingMargin

Spec == Init /\ [][Next]_vars

---------------------------------------------------------------------------
(* The two correction loops alone, entered with any tile size >= 1         *)

LoopInit ==
    /\ pc = "row_loop"
    /\ image_width \in 1..MaxImage
    /\ image_height \in 1..MaxImage
    /\ image = <<0, 0>>
    /\ terminal_height \in 3..MaxTerminal
    /\ terminal_width \in 3..MaxTerminal
    /\ grid_height = terminal_height - 2
    /\ grid_width = terminal_width - 2
    /\ tile_width \in 1..MaxTile
    /\ tile_height \in 1..MaxTile
    /\ image_row_count = FloorDiv(image_height, tile_height)
    /\ image_col_count = FloorDiv(image_width, tile_width)
    /\ vertical_margin = 0 /\ horizontal_margin = 0
    /\ row = 0 /\ col = 0
    /\ tiles = << >> /\ out = << >>
    /\ fn = "main" /\ args = << >> /\ ret = << >>

LoopNext ==
    \/ RowLoopStep
    \/ RowLoopExit
    \/ ColLoopStep
    \/ ColLoopExit

\* main() is sequential: a loop that can take a step takes it
LoopSpec == LoopInit /\ [][LoopNext]_vars /\ WF_vars(LoopNext)

---------------------------------------------------------------------------
(* One call of a pure function, on every argument of a bounded set *)

Anchors ==
    UNION { { COLORS_STEPS[i][1], COLORS_STEPS[i][2],
              (COLORS_STEPS[i][1] + COLORS_STEPS[i][2]) \div 2 }
            : i \in 1..Len(COLORS_STEPS) }

TintSamples == { v \in 0..255 : \E a \in Anchors : Abs(v - a) <= Near }

Histograms ==
    UNION { { h \in [1..n -> (1..MaxCount) \X Palette] :
                \A i, j \in 1..n : i # j => h[i][2] # h[j][2] }
            : n \in 1..Cardinality(Palette) }

Unset ==
    /\ image_width = 0 /\ image_height = 0 /\ image = <<0, 0>>
    /\ terminal_height = 0 /\ terminal_width = 0
    /\ grid_height = 0 /\ grid_width = 0
    /\ tile_width = 0 /\ tile_height = 0
    /\ image_row_count = 0 /\ image_col_count = 0
    /\ vertical_margin = 0 /\ horizontal_margin = 0
    /\ row = 0 /\ col = 0
    /\ tiles = << >> /\ out = << >>

FnInit ==
    /\ Unset
    /\ pc = "call"
    /\ ret = << >>
    /\ \/ fn = "round_tint" /\ args \in { <<v>> : v \in 0..255 }
       \/ fn = "get_xterm_color"
          /\ args \in TintSamples \X TintSamples \X TintSamples
       \/ fn = "get_char_from_light" /\ args \in { <<v>> : v \in 0..255 }
       \/ fn = "print_tile" /\ args \in { <<h>> : h \in Histograms }

Return(value) ==
    /\ pc = "call"
    /\ pc' = "returned"
    /\ ret' = << value >>
    /\ UNCHANGED << fn, args, inputVars, planVars, row, col, tiles, out >>

CallRoundTint ==
    /\ fn = "round_tint"
    /\ Return(round_tint(args[1]))

CallGetXtermColor ==
    /\ fn = "get_xterm_color"
    /\ Return(get_xterm_color(args[1], args[2], args[3]))

CallGetCharFromLight ==
    /\ fn = "get_char_from_light"
    /\ Return(get_char_from_light(<< args[1], 1 >>))

CallPrintTile ==
    /\ fn = "print_tile"
    /\ Return(print_tile(args[1]))

FnNext ==
    \/ CallRoundTint
    \/ CallGetXtermColor
    \/ CallGetCharFromLight
    \/ CallPrintTile

FnSpec == FnInit /\ [][FnNext]_vars

---------------------------------------------------------------------------
(* Properties of the pure functions, checked under FnSpec *)

Returned(name) == pc = "returned" /\ fn = name

CubeLevels == << 0, 95, 135, 175, 215, 255 >>

\* C3: for r, g, b in 0..255 get_xterm_color(r, g, b) is
\* 16 + 36*ri + 6*gi + bi with ri, gi, bi the round_tint results, each in
\* 0..5, so the code lies in 16..231; (255, 0, 0) maps to 196.
XtermColorInCube ==
    Returned("get_xterm_color") =>
        LET ri == round_tint(args[1])
            gi == round_tint(args[2])
            bi == round_tint(args[3])
        IN  /\ {ri, gi, bi} \subseteq 0..5
            /\ ret[1] = 16 + 36 * ri + 6 * gi + bi
            /\ ret[1] \in 16..231
            /\ (args = <<255, 0, 0>> => ret[1] = 196)

XtermColorRed ==
    /\ Returned("get_xterm_color")
    /\ args = <<255, 0, 0>>
    /\ ret = <<196>>

\* C4: for v in 0..255 round_tint(v) is the index k in 0..5 of a cube level
\* closest to v (no level is strictly closer); when two levels are equally
\* close the higher index is returned; 0 gives 0, 95 gives 1, 255 gives 5.
RoundTintClosest ==
    Returned("round_tint") =>
        LET v == args[1]
            k == ret[1]
            Dist(j) == Abs(CubeLevels[j + 1] - v)
        IN  /\ k \in 0..5
            /\ \A j \in 0..5 : Dist(j) >= Dist(k)
            /\ \A j \in 0..5 : Dist(j) = Dist(k) => j <= k
            /\ (v = 0 => k = 0)
            /\ (v = 95 => k = 1)
            /\ (v = 255 => k = 5)

RoundTintTie ==
    /\ Returned("round_tint")
    /\ \E j \in 0..4 :
          /\ Abs(CubeLevels[j + 1] - args[1]) = Abs(CubeLevels[j + 2] - args[1])
          /\ ret = << j + 1 >>

\* C5: for brightness in 0..255 get_char_from_light selects ramp index
\* floor(brightness * 69 / 255), which lies in 0..69 (the ramp has 70
\* characters); brightness 0 gives "$", brightness 255 gives the space.
CharFromLightIndex ==
    Returned("get_char_from_light") =>
        LET index == (args[1] * 69) \div 255
        IN  /\ ASCII_SCALE_SIZE = 70
            /\ index \in 0..69
            /\ ret[1] = ASCII_SCALE[index + 1]
            /\ (args[1] = 0 => ret[1] = "$")
            /\ (args[1] = 255 => ret[1] = " ")

CharFromLightBrightest ==
    /\ Returned("get_char_from_light")
    /\ args = <<255>>
    /\ ret = << " " >>

---------------------------------------------------------------------------
(* Properties of main(), checked under Spec                                *)

Crashed == pc = "ZeroDivisionError"

Planned == pc \in { "margins", "lead", "top", "row", "tile", "trail", "done" }

\* C1: for every image_width >= 1, image_height >= 1 and every terminal
\* with rows >= 5 and columns >= 5 the planning completes, and it returns
\* image_row_count < terminal_rows - 2 and
\* image_col_count < terminal_columns - 2.
FitInvariant ==
    (/\ image_width >= 1 /\ image_height >= 1
     /\ terminal_height >= 5 /\ terminal_width >= 5)
    => /\ ~Crashed
       /\ Planned => /\ image_row_count < terminal_height - 2
                     /\ image_col_count < terminal_width - 2

\* C2: a tile_width or tile_height of 0 from the scaling step is clamped
\* to 1 before the row and column counts are computed, so no division by
\* zero occurs for a positive image size and a usable grid >= 1 per axis.
ClampedBeforeCount ==
    /\ (pc = "count" /\ grid_width >= 1 /\ grid_height >= 1)
          => (tile_width >= 1 /\ tile_height >= 1)
    /\ ~Crashed

\* The tiles cropped so far that hold pixel (x, y)
TilesHolding(x, y) ==
    { i \in 1..Len(tiles) :
        /\ tiles[i][1] <= x /\ x < tiles[i][3]
        /\ tiles[i][2] <= y /\ y < tiles[i][4] }

TilesPartitionImage ==
    /\ Len(tiles) = image_row_count * image_col_count
    /\ \A i \in 1..Len(tiles) :
          /\ tiles[i][1] < tiles[i][3]
          /\ tiles[i][2] < tiles[i][4]
          /\ (i % image_col_count = 0 => tiles[i][3] = image_width)
          /\ (i > (image_row_count - 1) * image_col_count
                => tiles[i][4] = image_height)
    /\ \A x \in 0..(image_width - 1), y \in 0..(image_height - 1) :
          Cardinality(TilesHolding(x, y)) = 1

\* C7 as stated: in every conversion that runs to completion (terminal rows
\* and columns >= 3) the cropped rectangles have positive area and
\* partition the image, the last tile of each row / column extending to
\* image_width / image_height.
PartitionFromThree ==
    (pc = "done" /\ terminal_height >= 3 /\ terminal_width >= 3)
        => TilesPartitionImage

\* C7 amended: the same for terminals with rows >= 4 and columns >= 5.
PartitionWhenRoom ==
    (pc = "done" /\ terminal_height >= 4 /\ terminal_width >= 5)
        => TilesPartitionImage

PartitionWithRemainder ==
    /\ pc = "done"
    /\ terminal_height >= 4 /\ terminal_width >= 5
    /\ Len(tiles) >= 4
    /\ image_col_count * tile_width < image_width
    /\ image_row_count * tile_height < image_height

---------------------------------------------------------------------------
(* The shape of the output                                                 *)

LeadingNewLines(s) ==
    CHOOSE n \in 0..Len(s) :
        /\ \A i \in 1..n : s[i] = NewLine
        /\ (n = Len(s) \/ s[n + 1] # NewLine)

TrailingNewLines(s) ==
    CHOOSE n \in 0..Len(s) :
        /\ \A i \in (Len(s) - n + 1)..Len(s) : s[i] = NewLine
        /\ (n = Len(s) \/ s[Len(s) - n] # NewLine)

\* Blank lines before the frame, and after it (the bottom border ends with
\* its own newline)
BlankLinesBefore == LeadingNewLines(out)
BlankLinesAfter == TrailingNewLines(out) - 1

\* C9 as stated: vertical_margin // 2 blank lines come before the framed
\* grid and the remaining vertical_margin - vertical_margin // 2 after it,
\* so before plus after always total vertical_margin.
MarginRemainderTrailing ==
    pc = "done" =>
        /\ vertical_margin = grid_height - image_row_count
        /\ BlankLinesBefore = vertical_margin \div 2
        /\ BlankLinesAfter = vertical_margin - vertical_margin \div 2
        /\ BlankLinesBefore + BlankLinesAfter = vertical_margin

\* C9 amended: vertical_margin // 2 blank lines come before the framed grid
\* and vertical_margin // 2 after it; the remainder of an odd margin is not
\* printed, so they total vertical_margin - vertical_margin % 2.
MarginHalfEachSide ==
    pc = "done" =>
        /\ vertical_margin = grid_height - image_row_count
        /\ BlankLinesBefore = vertical_margin \div 2
        /\ BlankLinesAfter = vertical_margin \div 2
        /\ BlankLinesBefore + BlankLinesAfter
              = vertical_margin - (vertical_margin % 2)

MarginOdd ==
    /\ pc = "done"
    /\ vertical_margin % 2 = 1
    /\ vertical_margin >= 3
    /\ BlankLinesBefore + BlankLinesAfter = vertical_margin - 1

IsTileText(token) == Len(token) = 5

TileTexts == { i \in 1..Len(out) : IsTileText(out[i]) }

BorderLine ==
    << <<"+">> >> \o Repeat(<<"-">>, image_col_count) \o << <<"+">>, NewLine >>

\* token is a color escape with the palette code, the glyph and a reset of
\* a most frequent color of the box
TextOfBox(token, box) ==
    \E color \in ColorsIn(image, box) :
        /\ \A other \in ColorsIn(image, box) :
              CountOf(image, box, other) <= CountOf(image, box, color)
        /\ token = << ColorEscape,
                      get_xterm_color(color[1], color[2], color[3]), "m",
                      get_char_from_light(Light(color[1], color[2], color[3])),
                      ColorReset >>
        /\ token[2] \in 16..231

FramedGrid ==
    LET lead == BlankLinesBefore
        width == image_col_count + 3
        grid == lead + width
        bottom == grid + image_row_count * width
    IN  /\ Len(out) >= bottom + width
        /\ SubSeq(out, lead + 1, lead + width) = BorderLine
        /\ \A r \in 0..(image_row_count - 1) :
              LET base == grid + r * width
              IN  /\ out[base + 1] = <<"|">>
                  /\ \A c \in 0..(image_col_count - 1) :
                        TextOfBox(out[base + 2 + c],
                                  tiles[r * image_col_count + c + 1])
                  /\ out[base + image_col_count + 2] = <<"|">>
                  /\ out[base + image_col_count + 3] = NewLine
        /\ SubSeq(out, bottom + 1, bottom + width) = BorderLine
        /\ \A i \in (bottom + width + 1)..Len(out) : out[i] = NewLine
        /\ Cardinality(TileTexts) = image_row_count * image_col_count

---------------------------------------------------------------------------
(* Properties of the correction loops, checked under LoopSpec              *)

\* C8: from any tile_width >= 1 and tile_height >= 1, for a positive image
\* size and a terminal with rows >= 3 and columns >= 3, the two correction
\* loops end with image_row_count < grid_height and image_col_count <
\* grid_width, and no increment of a tile size increases its count.
LoopsTerminate ==
    /\ <>(/\ pc = "margins"
          /\ image_row_count < grid_height
          /\ image_col_count < grid_width)
    /\ [][/\ image_row_count' <= image_row_count
          /\ image_col_count' <= image_col_count]_vars

LoopsBothStepped ==
    /\ pc = "margins"
    /\ tile_height > MaxTile
    /\ tile_width > MaxTile
    /\ image_row_count < grid_height
    /\ image_col_count < grid_width

============================================================================
